---- MODULE Spec2Model ----
(***************************************************************************)
(* Model of the contract deployer (src/src/*.rs): the gas-coin selector,   *)
(* the gas consolidator, the build/sign/verify/submit pipeline, the        *)
(* publish-then-setup run of main, and the object classifier.              *)
(*                                                                         *)
(* The network client, the keystore and the package compiler are external  *)
(* collaborators: every answer they can give is a nondeterministic choice   *)
(* of the action that awaits them.                                          *)
(***************************************************************************)
EXTENDS Integers, Sequences, FiniteSets, TLC

\* ------------------------------------------------------------------ bounds
\* Largest number of coins the network returns for the account.
MaxCoins == 4
\* Largest balance of one coin.
MaxBalance == 3
\* Largest amount asked of the selector when it is called directly.
MaxAmount == 4
\* Largest reference gas price the network reports.
MaxGasPrice == 1
\* Largest number of objects in one input of the classifier.
MaxObjects == 11
\* Largest object version the network reports.
MaxVersion == 2
\* Largest number of fetch tasks of one fan-out that do not answer with data.
MaxFaults == 1
\* The most tasks of a fan-out that is followed task by task.
MaxTasks == 3
\* The most coins of the account while two concurrent selections are followed.
MaxRaceCoins == 2

\* ------------------------------------------------------- program constants
\* crate::constants is imported by deployer.rs; the three budgets are scaled
\* to the model's balances, and keep the relation budget(merge) = 2 * ceiling.
MERGE_SUI_GAS_BUDGET == 1
PUBLISH_PACKAGE_GAS_BUDGET == 3
SETUP_PACKAGE_GAS_BUDGET == 2

\* ----------------------------------------------------------------- results
\* eyre::Result<T>: Ok(v) or an error with its root message.
Ok(v) == [ok |-> TRUE, val |-> v]
Err(kind, msg) == [ok |-> FALSE, err |-> kind, msg |-> msg]
\* Option::None, and a variable that holds nothing yet.
None == [none |-> TRUE]

\* The account whose key signs, and another signer a keystore could answer with.
ActiveAddress == "active"
Addresses == {"active", "other"}

\* ------------------------------------------------------------------- coins
Coin(i, b) == [id |-> i, balance |-> b]

\* Every pool the network can return: up to MaxCoins coins of distinct
\* identities, in the order of the response.
Pools == UNION {{[i \in 1..n |-> Coin(i, bs[i])] : bs \in [1..n -> 0..MaxBalance]} : n \in 0..MaxCoins}

\* get_sui_coins: the coins of the active address, or a transport error.
get_sui_coins == {Ok(p) : p \in Pools} \cup {Err("ConnectionError", <<"Failed to fetch SUI objects">>)}

\* Mutant of sort_unstable_by_key: the vector is left in the order fetched.
sort_unstable_by_key_unsorted(s) == {s}

\* gas_coins.sort_unstable_by_key(|c| c.balance): ascending by balance; the
\* order of coins of equal balance is not specified, so every sorted
\* arrangement is a possible outcome. left holds the indices still to place.
RECURSIVE sorted_orders(_, _)
sorted_orders(s, left) ==
    IF left = {}
    THEN {<<>>}
    ELSE UNION {{<<s[i]>> \o t : t \in sorted_orders(s, left \ {i})} :
                  i \in {j \in left : \A k \in left : s[j].balance <= s[k].balance}}

sort_unstable_by_key(s) == sorted_orders(s, 1..Len(s))

\* iter().position(|coin| coin.balance >= amount): the first index, 0 for None.
position(s, amt) ==
    IF \E i \in 1..Len(s) : s[i].balance >= amt
    THEN CHOOSE i \in 1..Len(s) :
            /\ s[i].balance >= amt
            /\ \A j \in 1..(i - 1) : s[j].balance < amt
    ELSE 0

\* Mutant of swap_remove: the last element is dropped, whatever idx is.
swap_remove_drops_last(s, idx) == [k \in 1..(Len(s) - 1) |-> s[k]]

\* Vec::swap_remove(idx): the element at idx, replaced by the last element.
swap_remove(s, idx) == [k \in 1..(Len(s) - 1) |-> IF k = idx THEN s[Len(s)] ELSE s[k]]

\* The selection on a sorted vector (deployer.rs 73-79).
select_coin(sorted, amt) ==
    LET target_idx == position(sorted, amt)
    IN  IF target_idx = 0
        THEN Err("InsufficientResources",
                 <<"There isn't coin with balance higher than provided amount">>)
        ELSE Ok([target |-> sorted[target_idx], rest |-> swap_remove(sorted, target_idx)])

\* The first two steps of find_gas_coin_to_pay_gas_budget (deployer.rs 70-72):
\* every answer of the fetch with every outcome of the sort. A failed fetch
\* ends the call before the sort.
FetchedAndSorted ==
    UNION {IF f.ok
           THEN {[fetched |-> f, sorted |-> sorted] : sorted \in sort_unstable_by_key(f.val)}
           ELSE {[fetched |-> f, sorted |-> <<>>]} : f \in get_sui_coins}

\* find_gas_coin_to_pay_gas_budget(amount), given the answer of the fetch and
\* the outcome of the sort.
find_gas_coin_to_pay_gas_budget(fs, amt) ==
    IF ~fs.fetched.ok
    THEN fs.fetched
    ELSE select_coin(fs.sorted, amt)

\* let (gas_payer, _) = find_gas_coin_to_pay_gas_budget(..)?: the remainder is
\* dropped (deployer.rs 196, 284).
gas_payer_of(found) == IF found.ok THEN Ok(found.val.target) ELSE found

\* ---------------------------------------------------------------- merging
\* Mutant of split_first: split_last is called in its place.
split_last(s) ==
    IF Len(s) = 0 THEN None ELSE [first |-> s[Len(s)], rest |-> SubSeq(s, 1, Len(s) - 1)]

\* slice::split_first: None for an empty slice.
split_first(s) == IF Len(s) = 0 THEN None ELSE [first |-> Head(s), rest |-> Tail(s)]

\* Mutant of JoinCall: the two arguments change places.
JoinCall_swapped(target, coin) == [function |-> "pay::join", args |-> <<coin.id, target.id>>]

\* One "pay::join" call of the programmable transaction (deployer.rs 116-130).
JoinCall(target, coin) == [function |-> "pay::join", args |-> <<target.id, coin.id>>]

\* Mutant of merge_loop: the loop adds the target's balance for each coin.
RECURSIVE merge_loop_adds_target(_, _, _)
merge_loop_adds_target(target, resource, acc) ==
    IF resource = <<>>
    THEN acc
    ELSE merge_loop_adds_target(target, Tail(resource),
                    [calls |-> Append(acc.calls, JoinCall(target, Head(resource))),
                     ret   |-> acc.ret + target.balance])

\* The loop over the resource coins (deployer.rs 99-133): one call per coin,
\* and ret grows by the coin's balance, starting at the target's balance.
RECURSIVE merge_loop(_, _, _)
merge_loop(target, resource, acc) ==
    IF resource = <<>>
    THEN acc
    ELSE merge_loop(target, Tail(resource),
                    [calls |-> Append(acc.calls, JoinCall(target, Head(resource))),
                     ret   |-> acc.ret + Head(resource).balance])

\* TransactionData::new_programmable(sender, gas_payment, pt, budget, price).
new_programmable(sender, gas_payment, pt, gas_budget, gas_price) ==
    [sender |-> sender, gas_payment |-> gas_payment, pt |-> pt,
     gas_budget |-> gas_budget, gas_price |-> gas_price]

\* read_api().get_reference_gas_price(): a price, or a transport error.
get_reference_gas_price ==
    {Ok(g) : g \in 1..MaxGasPrice} \cup {Err("ConnectionError", <<"Failed to get gas price">>)}

\* Mutant of merge_build: the check that a resource coin is left is dropped.
merge_build_no_ensure(found, gas_budget, price) ==
    IF ~found.ok THEN found
    ELSE LET sf == split_first(found.val.rest)
         IN  IF sf = None
             THEN Err("InsufficientInputs", <<"You don't have enough gas coins for merging">>)
             ELSE IF ~price.ok THEN price
             ELSE Ok([tx_data |-> new_programmable(ActiveAddress, <<found.val.target.id>>,
                                                   <<>>, gas_budget, price.val),
                      ret |-> sf.first.balance,
                      target |-> sf.first.id])

\* merge_all_gas from the selector's answer to the transaction data
\* (deployer.rs 84-149), gas_budget being the budget of line 84: an error, or
\* the data with the values it returns later.
merge_build(found, gas_budget, price) ==
    IF ~found.ok THEN found
    ELSE LET sf == split_first(found.val.rest)
         IN  IF sf = None
             THEN Err("InsufficientInputs", <<"You don't have enough gas coins for merging">>)
             ELSE IF sf.rest = <<>>
             THEN Err("InsufficientInputs", <<"You must to have at least one resource coin">>)
             ELSE IF ~price.ok THEN price
             ELSE LET done == merge_loop(sf.first, sf.rest, [calls |-> <<>>, ret |-> sf.first.balance])
                  IN  Ok([tx_data |-> new_programmable(ActiveAddress, <<found.val.target.id>>,
                                                       done.calls, gas_budget, price.val),
                          ret |-> done.ret,
                          target |-> sf.first.id])

\* ---------------------------------------------------------------- pipeline
\* keystore.sign_secure(&active_address, data, Intent::sui_transaction()): the
\* keystore is a collaborator; it answers with a signature over the data by
\* some key, or fails.
sign(data) ==
    {Ok([signer |-> a, data |-> data]) : a \in Addresses}
        \cup {Err("SigningError", <<"Failed to sign tx data">>)}

\* What Transaction::verify checks: the signature is the sender's, over this data.
SignatureValid(data, sig) == sig.signer = data.sender /\ sig.data = data

\* Mutant of verify_tx_data: the envelope is made without the check.
verify_tx_data_unchecked(data, sig) == Ok([data |-> data, tx_signatures |-> <<sig>>])

\* verify_tx_data(tx_data, signature): the verified envelope, or an error.
verify_tx_data(data, sig) ==
    IF SignatureValid(data, sig)
    THEN Ok([data |-> data, tx_signatures |-> <<sig>>])
    ELSE Err("VerificationError", <<"Failed to verify tx">>)

Some(v) == [some |-> v]
Success == [tag |-> "Success"]
Failure(e) == [tag |-> "Failure", error |-> e]
\* The error strings a failed execution can carry.
ExecutionErrors == {"MoveAbort", "InsufficientGas"}

\* Lists of created objects a transaction's effects may name, besides none.
CreatedLists == {<<>>, <<1, 12>>}

\* SuiTransactionBlockEffectsV1, as far as the program reads it.
Effects(status, created, gas) == [status |-> status, created |-> created, gas_object |-> gas]

\* Every effects record of the model.
AllEffects ==
    {Effects(st, cr, g) :
        st \in {Success} \cup {Failure(e) : e \in ExecutionErrors},
        cr \in CreatedLists, g \in 1..MaxCoins}

\* try_into_effects (transaction.rs 15-22).
try_into_effects(resp) ==
    IF resp.effects = None
    THEN Err("MissingEffects", <<"Transaction doesn't have effects">>)
    ELSE Ok(resp.effects.some)

\* Mutant of assert_success: the failure's error string is left out.
assert_success_drops_error(e) ==
    IF e.status.tag = "Success"
    THEN Ok(e)
    ELSE Err("ExecutionFailed", <<"Transaction effects contains error">>)

\* assert_success (transaction.rs 24-37).
assert_success(e) ==
    IF e.status.tag = "Success"
    THEN Ok(e)
    ELSE Err("ExecutionFailed", <<"Transaction effects contains error: ", e.status.error>>)

\* -------------------------------------------------------------- classifier
\* ObjectType::Package, ObjectType::Struct with its StructTag, and TypeTag.
Package == [tag |-> "Package"]
Struct(m, n, tps) == [tag |-> "Struct", module |-> m, name |-> n, type_params |-> tps]
TypeStruct(m, n) == [tag |-> "Struct", module |-> m, name |-> n]
TypeU64 == [tag |-> "U64"]

\* The ten fields of PublishResult (publish_result.rs 8-20).
Fields == {"package", "lemons_pool", "lemon_registry", "lemon_randomness",
           "lemon_mint_config", "lemon_treasury", "lemon_cap", "juice_cap",
           "juice_treasury", "coin_juice_treasury_cap"}

\* PublishResultBuilder::default(): no field set (0 stands for None; object
\* identities are positive).
default_builder == [f \in Fields |-> 0]

\* Mutant of build: the builder's fields are returned as they are.
build_unchecked(b) == Ok(b)

\* PublishResultBuilder::build (derive Builder): the result when every field
\* is set, an error otherwise.
build(b) ==
    IF \E f \in Fields : b[f] = 0
    THEN Err("IncompleteClassification", <<"Failed to build.">>)
    ELSE Ok(b)

\* Mutant of param_field: the copy for MintConfig sets the registry's field.
param_field_copied(parser, m, n) ==
    CASE parser = "AdminCap" /\ <<m, n>> = <<"ljc", "Juice">> -> "juice_cap"
      [] parser = "AdminCap" /\ <<m, n>> = <<"lemons", "Lemons">> -> "lemon_cap"
      [] parser = "MintConfig" /\ <<m, n>> = <<"lemons", "Lemons">> -> "lemon_registry"
      [] parser = "Registry" /\ <<m, n>> = <<"lemons", "Lemons">> -> "lemon_registry"
      [] parser = "Randomness" /\ <<m, n>> = <<"lemons", "Lemons">> -> "lemon_randomness"
      [] parser = "TreasuryCap" /\ <<m, n>> = <<"ljc", "LJC">> -> "coin_juice_treasury_cap"
      [] OTHER -> ""

\* The match on the parameter's (module, name) in each parser: the field the
\* parser sets for it, "" when the parameter is skipped.
param_field(parser, m, n) ==
    CASE parser = "AdminCap" /\ <<m, n>> = <<"ljc", "Juice">> -> "juice_cap"
      [] parser = "AdminCap" /\ <<m, n>> = <<"lemons", "Lemons">> -> "lemon_cap"
      [] parser = "MintConfig" /\ <<m, n>> = <<"lemons", "Lemons">> -> "lemon_mint_config"
      [] parser = "Registry" /\ <<m, n>> = <<"lemons", "Lemons">> -> "lemon_registry"
      [] parser = "Randomness" /\ <<m, n>> = <<"lemons", "Lemons">> -> "lemon_randomness"
      [] parser = "TreasuryCap" /\ <<m, n>> = <<"ljc", "LJC">> -> "coin_juice_treasury_cap"
      [] OTHER -> ""

\* The loop over type_params that the five parsers share (object_parsers.rs
\* 52-63 and its four copies): a parameter that is no struct ends it with an
\* error, a matching one sets its field, any other is skipped.
RECURSIVE param_loop(_, _, _, _)
param_loop(parser, b, id, tps) ==
    IF tps = <<>>
    THEN Ok(b)
    ELSE LET param == Head(tps)
         IN  IF param.tag # "Struct"
             THEN Err("UnexpectedTypeParameter",
                      <<parser, "type_params must contain only TypeTag::Struct">>)
             ELSE LET f == param_field(parser, param.module, param.name)
                  IN  param_loop(parser, IF f = "" THEN b ELSE [b EXCEPT ![f] = id],
                                 id, Tail(tps))

admin_cap_parser(b, id, tps) == param_loop("AdminCap", b, id, tps)
mint_config_parser(b, id, tps) == param_loop("MintConfig", b, id, tps)
registry_parser(b, id, tps) == param_loop("Registry", b, id, tps)
randomness_parser(b, id, tps) == param_loop("Randomness", b, id, tps)
coin_treasury_cap_parser(b, id, tps) == param_loop("TreasuryCap", b, id, tps)

\* Mutant of dispatch: a type that no arm names is an error.
dispatch_rejects_others(b, id, type) ==
    LET mn == <<type.module, type.name>>
    IN  CASE mn = <<"admin", "AdminCap">> -> admin_cap_parser(b, id, type.type_params)
          [] mn = <<"mint_config", "MintConfig">> -> mint_config_parser(b, id, type.type_params)
          [] mn = <<"registry", "Registry">> -> registry_parser(b, id, type.type_params)
          [] mn = <<"randomness", "Randomness">> -> randomness_parser(b, id, type.type_params)
          [] mn = <<"coin", "TreasuryCap">> -> coin_treasury_cap_parser(b, id, type.type_params)
          [] mn = <<"lemon_pool", "LemonPool">> -> Ok([b EXCEPT !["lemons_pool"] = id])
          [] mn = <<"lemons", "Treasury">> -> Ok([b EXCEPT !["lemon_treasury"] = id])
          [] mn = <<"ljc", "JuiceTreasury">> -> Ok([b EXCEPT !["juice_treasury"] = id])
          [] OTHER -> Err("UnknownType", <<type.module, type.name>>)

\* The match on (module, name) of one object of the rest (object_parsers.rs
\* 25-41): the builder after it, or the parser's error.
dispatch(b, id, type) ==
    LET mn == <<type.module, type.name>>
    IN  CASE mn = <<"admin", "AdminCap">> -> admin_cap_parser(b, id, type.type_params)
          [] mn = <<"mint_config", "MintConfig">> -> mint_config_parser(b, id, type.type_params)
          [] mn = <<"registry", "Registry">> -> registry_parser(b, id, type.type_params)
          [] mn = <<"randomness", "Randomness">> -> randomness_parser(b, id, type.type_params)
          [] mn = <<"coin", "TreasuryCap">> -> coin_treasury_cap_parser(b, id, type.type_params)
          [] mn = <<"lemon_pool", "LemonPool">> -> Ok([b EXCEPT !["lemons_pool"] = id])
          [] mn = <<"lemons", "Treasury">> -> Ok([b EXCEPT !["lemon_treasury"] = id])
          [] mn = <<"ljc", "JuiceTreasury">> -> Ok([b EXCEPT !["juice_treasury"] = id])
          [] OTHER -> Ok(b)

IsPackage(o) == o.type.tag = "Package"
IsNotPackage(o) == o.type.tag # "Package"

\* objects.into_iter().partition(..): the package records and the rest, each
\* in the order of the input.
partition(objects) ==
    [packages |-> SelectSeq(objects, IsPackage), rest |-> SelectSeq(objects, IsNotPackage)]

\* Mutant of pop: with no package record, a record of identity 0 stands in.
pop_or_default(packages) ==
    IF packages = <<>> THEN Some([id |-> 0, type |-> Package]) ELSE Some(packages[Len(packages)])

\* Mutant of pop: the first package record is taken.
pop_front(packages) == IF packages = <<>> THEN None ELSE Some(packages[1])

\* packages.pop(): the last package record, None when there is none.
pop(packages) == IF packages = <<>> THEN None ELSE Some(packages[Len(packages)])

\* The loop over the rest (object_parsers.rs 17-42); handled lists the objects
\* that reached the match, in order.
RECURSIVE rest_loop(_, _, _)
rest_loop(b, rest, handled) ==
    IF rest = <<>>
    THEN [result |-> Ok(b), handled |-> handled]
    ELSE LET d == dispatch(b, Head(rest).id, Head(rest).type)
         IN  IF d.ok
             THEN rest_loop(d.val, Tail(rest), Append(handled, Head(rest).id))
             ELSE [result |-> d, handled |-> Append(handled, Head(rest).id)]

\* process_objects with the list of the objects it dispatched.
classify(objects) ==
    LET parts == partition(objects)
        last == pop(parts.packages)
    IN  IF last = None
        THEN [result |-> Err("NoPackageObject",
                             <<"Objects from publish transaction effects must contain one package object">>),
              handled |-> <<>>]
        ELSE LET looped == rest_loop([default_builder EXCEPT !["package"] = last.some.id],
                                     parts.rest, <<>>)
             IN  IF looped.result.ok
                 THEN [result |-> build(looped.result.val), handled |-> looped.handled]
                 ELSE looped

\* process_objects (object_parsers.rs 6-45).
process_objects(objects) == classify(objects).result

\* The objects of the chain that the model draws created objects from, by
\* identity: the package, one object for each of the nine other fields, and
\* objects that the classifier skips, rejects or sees twice.
ObjectIds == 1..17
Lemons == TypeStruct("lemons", "Lemons")
TypeOf(id) ==
    CASE id = 1 -> Package
      [] id = 2 -> Struct("admin", "AdminCap", <<TypeStruct("ljc", "Juice")>>)
      [] id = 3 -> Struct("admin", "AdminCap", <<Lemons>>)
      [] id = 4 -> Struct("mint_config", "MintConfig", <<Lemons>>)
      [] id = 5 -> Struct("registry", "Registry", <<Lemons>>)
      [] id = 6 -> Struct("randomness", "Randomness", <<Lemons>>)
      [] id = 7 -> Struct("coin", "TreasuryCap", <<TypeStruct("ljc", "LJC")>>)
      [] id = 8 -> Struct("lemon_pool", "LemonPool", <<>>)
      [] id = 9 -> Struct("lemons", "Treasury", <<>>)
      [] id = 10 -> Struct("ljc", "JuiceTreasury", <<>>)
      [] id = 11 -> Package
      [] id = 12 -> Struct("package", "UpgradeCap", <<>>)
      [] id = 13 -> Struct("coin", "TreasuryCap", <<TypeStruct("sui", "SUI")>>)
      [] id = 14 -> Struct("registry", "Registry", <<TypeU64>>)
      [] id = 15 -> Struct("admin", "AdminCap", <<TypeStruct("ljc", "Juice"), Lemons>>)
      [] id = 17 -> Struct("lemon_pool", "LemonPool", <<TypeU64>>)
      [] OTHER -> Struct("registry", "Registry", <<Lemons>>)

Object(id) == [id |-> id, type |-> TypeOf(id)]

\* The identities of S in ascending and in descending order.
Asc(S) == SelectSeq([i \in ObjectIds |-> i], LAMBDA i : i \in S)
Desc(S) == [i \in 1..Cardinality(S) |-> Asc(S)[Cardinality(S) + 1 - i]]
ObjectsOf(ids) == [i \in 1..Len(ids) |-> Object(ids[i])]

\* The inputs of the classifier drawn from the set S of identities: its objects
\* in either order.
ClassifierInputs(S) == {ObjectsOf(Asc(S)), ObjectsOf(Desc(S))}

\* --------------------------------------------------------------- main run
\* Every outcome of the selection in publish_package and in setup_package.
PublishGasPayers ==
    {gas_payer_of(find_gas_coin_to_pay_gas_budget(fs, PUBLISH_PACKAGE_GAS_BUDGET)) :
        fs \in FetchedAndSorted}
SetupGasPayers ==
    {gas_payer_of(find_gas_coin_to_pay_gas_budget(fs, SETUP_PACKAGE_GAS_BUDGET)) :
        fs \in FetchedAndSorted}

\* build_and_compile_package: the compiler's answer.
build_and_compile_package ==
    {Ok([modules |-> "modules", dependencies |-> "dependencies"]),
     Err("CompilationError", <<"Failed to build move package">>)}

\* transaction_builder().publish(sender, modules, dependencies, gas, budget):
\* the builder's transaction data, or its error.
publish(sender, compiled, gas, gas_budget) ==
    {Ok([sender |-> sender, gas_payment |-> <<gas>>,
         pt |-> <<[function |-> "publish", args |-> <<compiled.modules, compiled.dependencies>>]>>,
         gas_budget |-> gas_budget, gas_price |-> g]) : g \in 1..MaxGasPrice}
        \cup {Err("BuildError", <<"Failed to build transaction for publishing package">>)}

\* publish_package up to the built transaction data (deployer.rs 196-215).
publish_build(gas_payer, compiled, built) ==
    IF ~gas_payer.ok THEN gas_payer
    ELSE IF ~compiled.ok THEN compiled
    ELSE built

\* The created lists a successful publish transaction may report: the package
\* with the nine objects in either order, with an upgrade capability, and
\* without the mint config.
PublishedLists == {Asc(1..10), Desc(1..10), Asc((1..10) \cup {12}), Asc((1..10) \ {4})}

\* The answers of one fan-out of fetches: one per identity, at most MaxFaults
\* of them an error or a response without data.
FetchAnswers(ids) ==
    UNION {{[i \in 1..Len(ids) |-> IF i \in F THEN k[i] ELSE "data"] :
               k \in [F -> {"nodata", "error"}]} :
             F \in {G \in SUBSET (1..Len(ids)) : Cardinality(G) <= MaxFaults}}

FirstIndex(S) == CHOOSE i \in S : \A j \in S : i <= j

\* process_published_objects (deployer.rs 249-280): one task per created
\* object, joined in order; the first failed task is the error.
process_published_objects(created, answers) ==
    LET failed == {i \in 1..Len(created) : answers[i] = "error"}
    IN  IF failed # {}
        THEN Err("ConnectionError", <<"Failed to get object with id", created[FirstIndex(failed)]>>)
        ELSE Ok([i \in 1..Len(created) |->
                   IF answers[i] = "data"
                   THEN [data |-> Some([object_id |-> created[i],
                                        type_ |-> Some(TypeOf(created[i]))])]
                   ELSE [data |-> None]])

HasData(r) == r.data # None
\* main's two filter_map calls and collect (main.rs 40-46).
created_objects(responses) ==
    LET kept == SelectSeq(responses, HasData)
    IN  [i \in 1..Len(kept) |-> [id |-> kept[i].data.some.object_id,
                                 type |-> kept[i].data.some.type_.some]]

\* The answers of the two fetches of get_objects_references: a reference with
\* its version, a response without the object, or an error.
RefAnswers == [1..2 -> {[kind |-> "ref", version |-> v] : v \in 1..MaxVersion}
                         \cup {[kind |-> "missing"], [kind |-> "error"]}]

\* get_objects_references::<2> (deployer.rs 401-427): the tasks are joined in
\* order; a failed task is an error and a missing object panics in unwrap.
get_objects_references(object_ids, answers) ==
    LET bad == {i \in 1..Len(object_ids) : answers[i].kind # "ref"}
    IN  IF bad = {}
        THEN Ok([i \in 1..Len(object_ids) |-> [id |-> object_ids[i], version |-> answers[i].version]])
        ELSE IF answers[FirstIndex(bad)].kind = "error"
        THEN Err("ReferenceResolutionFailed", <<"Failed to get object with id", object_ids[FirstIndex(bad)]>>)
        ELSE Err("Panic", <<"called Option::unwrap() on a None value">>)

\* Mutant of setup_build: the call goes to the package of an earlier publish.
setup_build_earlier_package(publish_result, gas_payer, refs, price) ==
    IF ~gas_payer.ok THEN gas_payer
    ELSE IF ~refs.ok THEN refs
    ELSE IF ~price.ok THEN price
    ELSE Ok(new_programmable(ActiveAddress, <<gas_payer.val.id>>,
            <<[package |-> 11,
               function |-> "lemons::debug_setup",
               type_args |-> <<11, 11>>,
               args |-> <<[kind |-> "ImmOrOwnedObject", ref |-> refs.val[1]],
                          [kind |-> "SharedObject", id |-> publish_result.lemon_mint_config,
                           initial_shared_version |-> refs.val[2].version, mutable |-> TRUE]>>]>>,
            SETUP_PACKAGE_GAS_BUDGET, price.val))

\* setup_package up to the built transaction data (deployer.rs 284-346).
setup_build(publish_result, gas_payer, refs, price) ==
    IF ~gas_payer.ok THEN gas_payer
    ELSE IF ~refs.ok THEN refs
    ELSE IF ~price.ok THEN price
    ELSE Ok(new_programmable(ActiveAddress, <<gas_payer.val.id>>,
            <<[package |-> publish_result.package,
               function |-> "lemons::debug_setup",
               type_args |-> <<publish_result.package, publish_result.package>>,
               args |-> <<[kind |-> "ImmOrOwnedObject", ref |-> refs.val[1]],
                          [kind |-> "SharedObject", id |-> publish_result.lemon_mint_config,
                           initial_shared_version |-> refs.val[2].version, mutable |-> TRUE]>>]>>,
            SETUP_PACKAGE_GAS_BUDGET, price.val))

\* ----------------------------------------------------------------- fan-out
\* The two fan-outs, each task's fetch as the join loop sees it: still
\* running, or completed with its outcome.
PublishedFetch == "process_published_objects"
ReferenceFetch == "get_objects_references"
Running == [kind |-> "running"]
PublishedOutcomes == {[kind |-> k] : k \in {"data", "nodata", "error"}}
RefOutcomes == {[kind |-> "ref", version |-> v] : v \in 1..MaxVersion}
                   \cup {[kind |-> "missing"], [kind |-> "error"]}
TaskOutcomes(fn) == IF fn = PublishedFetch THEN PublishedOutcomes ELSE RefOutcomes

\* Mutant of join_task: a failed task is passed over and the loop goes on.
join_task_passes_over(fn, id, outcome) ==
    IF fn = PublishedFetch
    THEN Ok(IF outcome.kind = "data"
            THEN [data |-> Some([object_id |-> id, type_ |-> Some(TypeOf(id))])]
            ELSE [data |-> None])
    ELSE Ok([id |-> id, version |-> IF outcome.kind = "ref" THEN outcome.version ELSE 0])

\* One round of the join loop on a completed task (deployer.rs 275-276 and
\* 422-423): task.await ... ?? and the value pushed to ret. A failed task is
\* the error; in get_objects_references a response without the object panics.
join_task(fn, id, outcome) ==
    IF outcome.kind = "error"
    THEN Err(IF fn = PublishedFetch THEN "ConnectionError" ELSE "ReferenceResolutionFailed",
             <<"Failed to get object with id", id>>)
    ELSE IF fn = PublishedFetch
    THEN Ok(IF outcome.kind = "data"
            THEN [data |-> Some([object_id |-> id, type_ |-> Some(TypeOf(id))])]
            ELSE [data |-> None])
    ELSE IF outcome.kind = "missing"
    THEN Err("Panic", <<"called Option::unwrap() on a None value">>)
    ELSE Ok([id |-> id, version |-> outcome.version])

\* The join loop run to its end on tasks that have all completed: the result,
\* and the values pushed to ret before it ended.
RECURSIVE join_all(_, _, _, _)
join_all(fn, ids, outcomes, acc) ==
    IF Len(acc) = Len(ids)
    THEN [result |-> Ok(acc), joined |-> acc]
    ELSE LET j == join_task(fn, ids[Len(acc) + 1], outcomes[Len(acc) + 1])
         IN  IF j.ok
             THEN join_all(fn, ids, outcomes, Append(acc, j.val))
             ELSE [result |-> j, joined |-> acc]

\* ------------------------------------------------------------------- state
VARIABLES
    call,       \* the entry point that is running: "none", "find", "assert", "merge", "main", "classify"
    pc,         \* the position inside it
    amount,     \* the amount the selector was asked for (a direct call, merge_all_gas)
    pool,       \* the answer of that call's fetch of the coins, kept for reference
    selected,   \* the selector's result in that call
    op,         \* the transaction in the pipeline: "none", "merge", "publish", "setup"
    pending,    \* what merge_all_gas computed before submitting and returns after
    tx_data,    \* the built transaction data
    signature,  \* the keystore's signature
    tx,         \* the verified envelope
    response,   \* the answer of execute_tx
    effects,    \* the effects record extracted from a response
    checked,    \* what assert_success returned
    objects,    \* the input of the classifier
    classified, \* what the classifier returned, with the objects it dispatched
    net,        \* every envelope handed to the network, in order
    stages,     \* per transaction, the pipeline stages it has entered, in order
    batch,      \* the fan-out that was launched last: its function and identities
    tasks,      \* the spawned tasks of that fan-out, each running or completed
    joined,     \* the values its join loop has pushed to ret
    completed,  \* the tasks of that fan-out that have completed, in the order they did, while followed task by task
    account,    \* the coins the network holds for the active address, while concurrent calls are followed
    callers,    \* the concurrent calls of the selector, each with its position and its locals
    ret         \* what the entry point returned (None while it runs)

finder == <<amount, pool, selected>>
envelope == <<tx_data, signature, tx>>
classifier == <<objects, classified>>
fanout == <<batch, tasks, joined, completed>>
race == <<account, callers>>
vars == <<call, pc, finder, op, pending, envelope, response, effects, checked,
          classifier, fanout, race, net, stages, ret>>

Ops == {"merge", "publish", "setup"}

Init ==
    /\ call = "none"
    /\ pc = "idle"
    /\ amount = 0
    /\ pool = None
    /\ selected = None
    /\ op = "none"
    /\ pending = None
    /\ tx_data = None
    /\ signature = None
    /\ tx = None
    /\ response = None
    /\ effects = None
    /\ checked = None
    /\ objects = <<>>
    /\ classified = None
    /\ batch = None
    /\ tasks = <<>>
    /\ joined = <<>>
    /\ completed = <<>>
    /\ account = None
    /\ callers = <<>>
    /\ net = <<>>
    /\ stages = [o \in Ops |-> <<>>]
    /\ ret = None

\* A direct call of the public selector, for the amounts and the answers of
\* the fetch and the sort that are given.
FindGasCoinOn(amounts, fetches) ==
    /\ call = "none"
    /\ \E amt \in amounts, fs \in fetches :
        /\ amount' = amt
        /\ pool' = fs.fetched
        /\ selected' = find_gas_coin_to_pay_gas_budget(fs, amt)
        /\ ret' = find_gas_coin_to_pay_gas_budget(fs, amt)
    /\ call' = "find"
    /\ pc' = "done"
    /\ UNCHANGED <<race, fanout, op, pending, envelope, response, effects, checked, classifier, net, stages>>

\* A direct call of the public selector with any amount.
FindGasCoin == FindGasCoinOn(0..MaxAmount, FetchedAndSorted)

\* A direct call of assert_success on any effects record.
AssertSuccess ==
    /\ call = "none"
    /\ \E e \in AllEffects :
        /\ effects' = e
        /\ checked' = assert_success(e)
        /\ ret' = assert_success(e)
    /\ call' = "assert"
    /\ pc' = "done"
    /\ UNCHANGED <<race, fanout, finder, op, pending, envelope, response, classifier, net, stages>>

\* merge_all_gas up to the built transaction data (deployer.rs 83-149), for
\* the budget of line 84 and the answers of the fetch and the sort that are
\* given.
MergeBuildOn(gas_budget, fetches) ==
    /\ call = "none"
    /\ call' = "merge"
    /\ amount' = gas_budget
    /\ \E fs \in fetches, price \in get_reference_gas_price :
        LET found == find_gas_coin_to_pay_gas_budget(fs, gas_budget)
            built == merge_build(found, gas_budget, price)
        IN  /\ pool' = fs.fetched
            /\ selected' = found
            /\ IF built.ok
               THEN /\ op' = "merge"
                    /\ tx_data' = built.val.tx_data
                    /\ pending' = [ret |-> built.val.ret, target |-> built.val.target]
                    /\ stages' = [stages EXCEPT !["merge"] = Append(@, "Built")]
                    /\ pc' = "sign"
                    /\ ret' = ret
               ELSE /\ ret' = built
                    /\ pc' = "done"
                    /\ UNCHANGED <<op, tx_data, pending, stages>>
    /\ UNCHANGED <<race, fanout, signature, tx, response, effects, checked, classifier, net>>

\* merge_all_gas with the program's budget on any pool.
MergeBuild == MergeBuildOn(MERGE_SUI_GAS_BUDGET * 2, FetchedAndSorted)

\* main up to the built publish transaction (main.rs 17-33, deployer.rs 192-215).
PublishBuild ==
    /\ call = "none"
    /\ call' = "main"
    /\ \E gas_payer \in PublishGasPayers, compiled \in build_and_compile_package :
        \E built \in IF gas_payer.ok /\ compiled.ok
                     THEN publish(ActiveAddress, compiled.val, gas_payer.val.id,
                                  PUBLISH_PACKAGE_GAS_BUDGET)
                     ELSE {None} :
            LET data == publish_build(gas_payer, compiled, built)
            IN  IF data.ok
                THEN /\ op' = "publish"
                     /\ tx_data' = data.val
                     /\ stages' = [stages EXCEPT !["publish"] = Append(@, "Built")]
                     /\ pc' = "sign"
                     /\ ret' = ret
                ELSE /\ ret' = data
                     /\ pc' = "done"
                     /\ UNCHANGED <<op, tx_data, stages>>
    /\ UNCHANGED <<race, fanout, finder, pending, signature, tx, response, effects, checked, classifier, net>>

\* Mutant of Sign: the signed data goes to execute_tx without verify_tx_data.
Sign_then_execute ==
    /\ pc = "sign"
    /\ \E s \in sign(tx_data) :
        IF s.ok
        THEN /\ signature' = s.val
             /\ tx' = [data |-> tx_data, tx_signatures |-> <<s.val>>]
             /\ stages' = [stages EXCEPT ![op] = Append(@, "Signed")]
             /\ pc' = "execute"
             /\ ret' = ret
        ELSE /\ ret' = s
             /\ pc' = "done"
             /\ UNCHANGED <<signature, tx, stages>>
    /\ UNCHANGED <<race, fanout, call, finder, op, pending, tx_data, response, effects, checked,
                   classifier, net>>

\* self.sign(&tx_data) of the operation in the pipeline.
Sign ==
    /\ pc = "sign"
    /\ \E s \in sign(tx_data) :
        IF s.ok
        THEN /\ signature' = s.val
             /\ stages' = [stages EXCEPT ![op] = Append(@, "Signed")]
             /\ pc' = "verify"
             /\ ret' = ret
        ELSE /\ ret' = s
             /\ pc' = "done"
             /\ UNCHANGED <<signature, stages>>
    /\ UNCHANGED <<race, fanout, call, finder, op, pending, tx_data, tx, response, effects, checked,
                   classifier, net>>

\* verify_tx_data(tx_data, signature)?: the gate before execute_tx.
Verify ==
    /\ pc = "verify"
    /\ LET v == verify_tx_data(tx_data, signature)
       IN  IF v.ok
           THEN /\ tx' = v.val
                /\ stages' = [stages EXCEPT ![op] = Append(@, "Verified")]
                /\ pc' = "execute"
                /\ ret' = ret
           ELSE /\ ret' = v
                /\ pc' = "done"
                /\ UNCHANGED <<tx, stages>>
    /\ UNCHANGED <<race, fanout, call, finder, op, pending, tx_data, signature, response, effects,
                   checked, classifier, net>>

\* execute_tx(tx): the envelope is handed to the quorum driver.
Submit ==
    /\ pc = "execute"
    /\ net' = Append(net, [op |-> op, data |-> tx.data, tx_signatures |-> tx.tx_signatures])
    /\ stages' = [stages EXCEPT ![op] = Append(@, "Submitted")]
    /\ pc' = "await"
    /\ UNCHANGED <<race, fanout, call, finder, op, pending, envelope, response, effects, checked,
                   classifier, ret>>

\* Every answer of execute_transaction_block for a submitted envelope: an error,
\* or a response after local execution, with or without effects. A failed
\* execution creates nothing; a successful publish creates its objects.
ExecuteAnswers(o, data) ==
    {Err("SubmissionError", <<"Failed to execute tx">>)}
        \cup {Ok([effects |-> None])}
        \cup {Ok([effects |-> Some(Effects(Failure(e), <<>>, data.gas_payment[1]))]) :
                e \in ExecutionErrors}
        \cup {Ok([effects |-> Some(Effects(Success, cr, data.gas_payment[1]))]) :
                cr \in IF o = "publish" THEN PublishedLists ELSE {<<>>}}

\* Mutant of Finalize: a failed submission is tried again.
Finalize_tries_again ==
    /\ pc = "await"
    /\ \E r \in ExecuteAnswers(op, tx.data) :
        IF r.ok
        THEN /\ response' = r.val
             /\ stages' = [stages EXCEPT ![op] = Append(@, "Finalized")]
             /\ pc' = "executed"
        ELSE /\ pc' = "execute"
             /\ UNCHANGED <<response, stages>>
    /\ UNCHANGED <<race, fanout, call, finder, op, pending, envelope, effects, checked, classifier,
                   net, ret>>

\* execute_tx returns (WaitForLocalExecution): the transaction is final, or the
\* call failed.
Finalize ==
    /\ pc = "await"
    /\ \E r \in ExecuteAnswers(op, tx.data) :
        IF r.ok
        THEN /\ response' = r.val
             /\ stages' = [stages EXCEPT ![op] = Append(@, "Finalized")]
             /\ pc' = "executed"
             /\ ret' = ret
        ELSE /\ ret' = r
             /\ pc' = "done"
             /\ UNCHANGED <<response, stages>>
    /\ UNCHANGED <<race, fanout, call, finder, op, pending, envelope, effects, checked, classifier, net>>

\* merge_all_gas after execute_tx (deployer.rs 158-166): the effects are
\* extracted and asserted, then the sum and the target are returned.
MergeFinish ==
    /\ pc = "executed"
    /\ op = "merge"
    /\ LET e == try_into_effects(response)
       IN  IF ~e.ok
           THEN /\ ret' = e
                /\ UNCHANGED <<effects, checked>>
           ELSE /\ effects' = e.val
                /\ checked' = assert_success(e.val)
                /\ ret' = IF assert_success(e.val).ok
                          THEN Ok([balance |-> pending.ret, id |-> pending.target])
                          ELSE assert_success(e.val)
    /\ pc' = "done"
    /\ UNCHANGED <<race, fanout, call, finder, op, pending, envelope, response, classifier, net, stages>>

\* publish_package returns the response and main extracts its effects
\* (deployer.rs 224-229, main.rs 30-35).
PublishFinish ==
    /\ pc = "executed"
    /\ op = "publish"
    /\ LET e == try_into_effects(response)
       IN  IF ~e.ok
           THEN /\ ret' = e
                /\ pc' = "done"
                /\ UNCHANGED effects
           ELSE /\ effects' = e.val
                /\ pc' = "fetch"
                /\ ret' = ret
    /\ UNCHANGED <<race, fanout, call, finder, op, pending, envelope, response, checked, classifier,
                   net, stages>>

\* process_published_objects(effects) and the filter of its responses
\* (main.rs 37-46). The fan-out is taken in one step: tasks holds the outcome
\* of every task, joined what the join loop pushed before it ended.
FetchCreated ==
    /\ pc = "fetch"
    /\ \E answers \in FetchAnswers(effects.created) :
        LET fetched == process_published_objects(effects.created, answers)
            outcomes == [i \in 1..Len(effects.created) |-> [kind |-> answers[i]]]
        IN  /\ batch' = [fn |-> PublishedFetch, ids |-> effects.created]
            /\ tasks' = outcomes
            /\ joined' = join_all(PublishedFetch, effects.created, outcomes, <<>>).joined
            /\ UNCHANGED completed
            /\ IF fetched.ok
               THEN /\ objects' = created_objects(fetched.val)
                    /\ pc' = "classify"
                    /\ ret' = ret
               ELSE /\ ret' = fetched
                    /\ pc' = "done"
                    /\ UNCHANGED objects
    /\ UNCHANGED <<race, call, finder, op, pending, envelope, response, effects, checked,
                   classified, net, stages>>

\* object_parsers::process_objects(created_objects)? in main (main.rs 48-49).
Classify ==
    /\ pc = "classify"
    /\ call = "main"
    /\ classified' = classify(objects)
    /\ IF process_objects(objects).ok
       THEN pc' = "setup" /\ ret' = ret
       ELSE pc' = "done" /\ ret' = process_objects(objects)
    /\ UNCHANGED <<race, fanout, call, finder, op, pending, envelope, response, effects, checked,
                   objects, net, stages>>

\* setup_package(result) up to the built transaction data (deployer.rs 283-346).
SetupBuild ==
    /\ pc = "setup"
    /\ \E gas_payer \in SetupGasPayers, answers \in RefAnswers, price \in get_reference_gas_price :
        LET publish_result == classified.result.val
            refs == get_objects_references(
                        <<publish_result.lemon_cap, publish_result.lemon_mint_config>>, answers)
            data == setup_build(publish_result, gas_payer, refs, price)
            ids == <<publish_result.lemon_cap, publish_result.lemon_mint_config>>
        IN  /\ IF gas_payer.ok
               THEN /\ batch' = [fn |-> ReferenceFetch, ids |-> ids]
                    /\ tasks' = answers
                    /\ joined' = join_all(ReferenceFetch, ids, answers, <<>>).joined
                    /\ UNCHANGED completed
               ELSE UNCHANGED fanout
            /\ IF data.ok
               THEN /\ op' = "setup"
                    /\ tx_data' = data.val
                    /\ signature' = None
                    /\ tx' = None
                    /\ response' = None
                    /\ stages' = [stages EXCEPT !["setup"] = Append(@, "Built")]
                    /\ pc' = "sign"
                    /\ ret' = ret
               ELSE /\ ret' = data
                    /\ pc' = "done"
                    /\ UNCHANGED <<op, envelope, response, stages>>
    /\ UNCHANGED <<race, call, finder, pending, effects, checked, classifier, net>>

\* setup_package after execute_tx (deployer.rs 383-387) and the end of main.
SetupFinish ==
    /\ pc = "executed"
    /\ op = "setup"
    /\ ret' = Ok(<<>>)
    /\ pc' = "done"
    /\ UNCHANGED <<race, fanout, call, finder, op, pending, envelope, response, effects, checked,
                   classifier, net, stages>>

Next ==
    \/ FindGasCoin
    \/ AssertSuccess
    \/ MergeBuild
    \/ PublishBuild
    \/ Sign
    \/ Verify
    \/ Submit
    \/ Finalize
    \/ MergeFinish
    \/ PublishFinish
    \/ FetchCreated
    \/ Classify
    \/ SetupBuild
    \/ SetupFinish

Spec == Init /\ [][Next]_vars

\* ------------------------------------------------------------------ claims
Indices(s) == 1..Len(s)

RECURSIVE SumBalances(_)
SumBalances(s) == IF s = <<>> THEN 0 ELSE Head(s).balance + SumBalances(Tail(s))

PipelineStages == <<"Built", "Signed", "Verified", "Submitted", "Finalized">>

\* C1: whenever the selector has run on a fetched pool P for an amount r, a
\* returned coin is a coin of P with balance >= r and no coin of P with
\* balance >= r has a smaller balance; when no coin of P has balance >= r the
\* result is the error InsufficientResources and carries no coin.
C1_SelectorPicksSmallestSufficient ==
    (call \in {"find", "merge"} /\ pool.ok) =>
        LET P == pool.val
        IN  /\ selected.ok =>
                /\ \E i \in Indices(P) : P[i] = selected.val.target
                /\ selected.val.target.balance >= amount
                /\ \A i \in Indices(P) :
                      P[i].balance >= amount => selected.val.target.balance <= P[i].balance
            /\ (\A i \in Indices(P) : P[i].balance < amount) =>
                /\ ~selected.ok
                /\ selected.err = "InsufficientResources"
                /\ "val" \notin DOMAIN selected

\* C1 witness: a direct call picked, from a pool with a coin below the amount
\* and a larger sufficient coin, a coin that was not fetched first.
C1_Witness ==
    /\ call = "find"
    /\ pool.ok
    /\ selected.ok
    /\ amount > 0
    /\ pool.val[1] # selected.val.target
    /\ \E i, j \in Indices(pool.val) :
          /\ pool.val[i].balance < amount
          /\ pool.val[j].balance > selected.val.target.balance

\* C2: every envelope handed to the network carries the one signature that
\* verification accepts for its data, and it is the data and signature of the
\* operation that submitted it; an operation that ended in a signing or
\* verification error has handed nothing to the network.
C2_SubmittedOnlyIfVerified ==
    /\ \A i \in Indices(net) :
          /\ Len(net[i].tx_signatures) = 1
          /\ SignatureValid(net[i].data, net[i].tx_signatures[1])
    /\ (pc \in {"await", "executed"}) =>
          /\ net[Len(net)].op = op
          /\ net[Len(net)].data = tx_data
          /\ net[Len(net)].tx_signatures = <<signature>>
    /\ (pc = "done" /\ ~ret.ok /\ ret.err \in {"SigningError", "VerificationError"}) =>
          \A i \in Indices(net) : net[i].op # op

\* C2 witness: the publish transaction was submitted, and the setup
\* transaction was signed by another key, failed verification and was not.
C2_Witness ==
    /\ call = "main"
    /\ pc = "done"
    /\ ~ret.ok
    /\ ret.err = "VerificationError"
    /\ op = "setup"
    /\ signature.signer # ActiveAddress
    /\ Len(net) = 1

IsPrefix(s, t) == Len(s) <= Len(t) /\ \A i \in Indices(s) : s[i] = t[i]

StagesAt(at) ==
    CASE at = "sign" -> 1
      [] at = "verify" -> 2
      [] at = "execute" -> 3
      [] at = "await" -> 4
      [] at = "executed" -> 5

\* C3: the stages a transaction has entered are always an initial part of
\* Built, Signed, Verified, Submitted, Finalized, and the transaction in the
\* pipeline has entered exactly the stages before its position.
C3_StagesInOrder ==
    /\ \A o \in Ops : IsPrefix(stages[o], PipelineStages)
    /\ (pc \in {"sign", "verify", "execute", "await", "executed"}) =>
          Len(stages[op]) = StagesAt(pc)

\* C3 witness: the publish and the setup transaction both went through all
\* five stages.
C3_Witness ==
    /\ stages["publish"] = PipelineStages
    /\ stages["setup"] = PipelineStages

\* C4 (the claim as stated; the code violates it): main's setup_package
\* returned Ok only if the setup response has effects of status Success.
C4_SetupOkOnlyOnSuccess ==
    (call = "main" /\ pc = "done" /\ ret.ok) =>
        /\ response.effects # None
        /\ response.effects.some.status.tag = "Success"

\* C5 (the claim as stated; the code violates it): while main holds the
\* effects of a failed publish, nothing has been classified and no setup
\* transaction has been built, and the run, once ended, has ended with
\* ExecutionFailed.
C5_FailedPublishEndsRun ==
    (call = "main" /\ effects # None /\ effects.status.tag = "Failure") =>
        /\ classified = None
        /\ stages["setup"] = <<>>
        /\ pc = "done" => (~ret.ok /\ ret.err = "ExecutionFailed")

\* C6: whenever assert_success has run on an effects record e, a Success
\* status gave Ok with e's fields unchanged, and a Failure status gave an error
\* whose message ends with exactly e's error string and that carries no effects.
C6_AssertSuccess ==
    (checked # None) =>
        /\ effects.status.tag = "Success" =>
              /\ checked.ok
              /\ DOMAIN checked.val = DOMAIN effects
              /\ \A f \in DOMAIN effects : checked.val[f] = effects[f]
        /\ effects.status.tag = "Failure" =>
              /\ ~checked.ok
              /\ checked.err = "ExecutionFailed"
              /\ checked.msg[Len(checked.msg)] = effects.status.error
              /\ "val" \notin DOMAIN checked

\* C6 witness: merge_all_gas ended with the error of a failed execution.
C6_Witness ==
    /\ call = "merge"
    /\ pc = "done"
    /\ checked # None
    /\ effects.status = Failure("InsufficientGas")
    /\ ret = checked

\* C10: when merge_all_gas returned Ok, the balance is the target's balance
\* plus the balances of the sources, which is the pool's total without the fee
\* payer's balance, and the identity is the target's, the first coin left
\* after the selection.
C10_MergeReturnsSumAndTarget ==
    (call = "merge" /\ pc = "done" /\ ret.ok) =>
        LET payer == selected.val.target
            left == selected.val.rest
        IN  /\ ret.val.balance = left[1].balance + SumBalances(Tail(left))
            /\ ret.val.balance = SumBalances(pool.val) - payer.balance
            /\ ret.val.id = left[1].id
            /\ ret.val.id # payer.id

\* C10 witness: a merge of two sources into a target returned Ok, and the fee
\* payer and the target both held a balance.
C10_Witness ==
    /\ call = "merge"
    /\ pc = "done"
    /\ ret.ok
    /\ Len(selected.val.rest) = 3
    /\ selected.val.rest[1].balance > 0
    /\ selected.val.rest[2].balance # selected.val.rest[1].balance
    /\ ret.val.balance < SumBalances(pool.val)

\* ------------------------------------------------- the classifier on its own
\* process_objects called on every set of at most MaxObjects objects, in
\* either order.
InitClassify ==
    /\ call = "classify"
    /\ pc = "classify"
    /\ amount = 0
    /\ pool = None
    /\ selected = None
    /\ op = "none"
    /\ pending = None
    /\ tx_data = None
    /\ signature = None
    /\ tx = None
    /\ response = None
    /\ effects = None
    /\ checked = None
    /\ \E S \in SUBSET ObjectIds :
        /\ Cardinality(S) <= MaxObjects
        /\ objects \in ClassifierInputs(S)
    /\ classified = None
    /\ batch = None
    /\ tasks = <<>>
    /\ joined = <<>>
    /\ completed = <<>>
    /\ account = None
    /\ callers = <<>>
    /\ net = <<>>
    /\ stages = [o \in Ops |-> <<>>]
    /\ ret = None

ProcessObjects ==
    /\ pc = "classify"
    /\ call = "classify"
    /\ classified' = classify(objects)
    /\ ret' = process_objects(objects)
    /\ pc' = "done"
    /\ UNCHANGED <<race, fanout, call, finder, op, pending, envelope, response, effects, checked,
                   objects, net, stages>>

NextClassify == ProcessObjects

SpecClassify == InitClassify /\ [][NextClassify]_vars

\* ---------------------------------------------------- claims on the classifier
\* The nine type signatures that select a field other than package, as the
\* specification lists them.
RecognizedSignatures ==
    {[field |-> "juice_cap", module |-> "admin", name |-> "AdminCap", param |-> <<"ljc", "Juice">>],
     [field |-> "lemon_cap", module |-> "admin", name |-> "AdminCap", param |-> <<"lemons", "Lemons">>],
     [field |-> "lemon_mint_config", module |-> "mint_config", name |-> "MintConfig", param |-> <<"lemons", "Lemons">>],
     [field |-> "lemon_registry", module |-> "registry", name |-> "Registry", param |-> <<"lemons", "Lemons">>],
     [field |-> "lemon_randomness", module |-> "randomness", name |-> "Randomness", param |-> <<"lemons", "Lemons">>],
     [field |-> "coin_juice_treasury_cap", module |-> "coin", name |-> "TreasuryCap", param |-> <<"ljc", "LJC">>],
     [field |-> "lemons_pool", module |-> "lemon_pool", name |-> "LemonPool", param |-> <<>>],
     [field |-> "lemon_treasury", module |-> "lemons", name |-> "Treasury", param |-> <<>>],
     [field |-> "juice_treasury", module |-> "ljc", name |-> "JuiceTreasury", param |-> <<>>]}

RecognizedNames == {<<sig.module, sig.name>> : sig \in RecognizedSignatures}
ParameterizedNames == {<<sig.module, sig.name>> : sig \in {g \in RecognizedSignatures : g.param # <<>>}}

\* The type carries the signature: its module and name, and its parameter
\* among the type parameters.
HasSignature(type, sig) ==
    /\ type.tag = "Struct"
    /\ type.module = sig.module
    /\ type.name = sig.name
    /\ sig.param # <<>> =>
          \E k \in Indices(type.type_params) :
              /\ type.type_params[k].tag = "Struct"
              /\ <<type.type_params[k].module, type.type_params[k].name>> = sig.param

PackageRecords == {i \in Indices(objects) : objects[i].type.tag = "Package"}
RestRecords == Indices(objects) \ PackageRecords
Carriers(sig) == {i \in RestRecords : HasSignature(objects[i].type, sig)}
Named(mn) == {i \in RestRecords : <<objects[i].type.module, objects[i].type.name>> = mn}

\* The type parameters of a recognized type are correct: none for the three
\* plain types; for the five others at least one, each of them a struct that
\* the type's parser matches.
CorrectParameters(type) ==
    IF <<type.module, type.name>> \in ParameterizedNames
    THEN /\ type.type_params # <<>>
         /\ \A k \in Indices(type.type_params) :
               \E sig \in RecognizedSignatures :
                   /\ <<sig.module, sig.name>> = <<type.module, type.name>>
                   /\ type.type_params[k].tag = "Struct"
                   /\ <<type.type_params[k].module, type.type_params[k].name>> = sig.param
    ELSE type.type_params = <<>>

\* The result holds, in every field, the identity of the record that carries
\* the field's signature, and in package the identity of the package record.
AllTenPopulated ==
    /\ ret.ok
    /\ DOMAIN ret.val = Fields
    /\ \A f \in Fields : ret.val[f] # 0
    /\ \E i \in PackageRecords : ret.val["package"] = objects[i].id
    /\ \A sig \in RecognizedSignatures :
          \E i \in Carriers(sig) : ret.val[sig.field] = objects[i].id

\* C7 as stated: one package record and one record of each of the eight
\* recognized (module, name) pairs, with correct type parameters.
EightTypesGiven ==
    /\ Cardinality(PackageRecords) = 1
    /\ \A mn \in RecognizedNames : Cardinality(Named(mn)) = 1
    /\ Len(objects) = 9
    /\ \A i \in RestRecords : CorrectParameters(objects[i].type)

\* C7 (the claim as stated, refuted): an input of one package record and one
\* record of each of the eight recognized types, with correct type
\* parameters, is classified with all ten fields populated.
C7_EightTypesPopulateAll ==
    (pc = "done" /\ EightTypesGiven) => AllTenPopulated

\* C7 as amended: one package record, exactly one record for each of the nine
\* signatures, and nothing else.
NineSignaturesGiven ==
    /\ Cardinality(PackageRecords) = 1
    /\ \A sig \in RecognizedSignatures : Cardinality(Carriers(sig)) = 1
    /\ \A i \in RestRecords :
          /\ \E sig \in RecognizedSignatures : i \in Carriers(sig)
          /\ CorrectParameters(objects[i].type)

\* C7 (amended): an input of exactly one package record and exactly one
\* record for each of the nine signatures, AdminCap being carried for
\* ljc::Juice and for lemons::Lemons, is classified with all ten fields
\* populated, each with the identity of the record carrying its signature.
C7_NineSignaturesPopulateAll ==
    (pc = "done" /\ NineSignaturesGiven) => AllTenPopulated

\* C7 witness: such an input with two AdminCap records, the package record
\* last, was classified.
C7_Witness ==
    /\ pc = "done"
    /\ NineSignaturesGiven
    /\ Len(objects) = 10
    /\ objects[10].type.tag = "Package"
    /\ ret.ok

\* No record of the input can set the field.
NeverSet(f) ==
    IF f = "package"
    THEN PackageRecords = {}
    ELSE \A sig \in RecognizedSignatures : sig.field = f => Carriers(sig) = {}

\* A record of one of the five parameterized types has a type parameter that
\* is no struct.
RejectedParameter ==
    \E i \in RestRecords :
        /\ <<objects[i].type.module, objects[i].type.name>> \in ParameterizedNames
        /\ \E k \in Indices(objects[i].type.type_params) :
              objects[i].type.type_params[k].tag # "Struct"

\* A returned result has every field set by a record of the input.
ResultOnlyIfAllSet ==
    ret.ok =>
        /\ \E i \in PackageRecords : ret.val["package"] = objects[i].id
        /\ \A sig \in RecognizedSignatures :
              \E i \in Carriers(sig) : ret.val[sig.field] = objects[i].id

\* C8 (the claim as stated, refuted): a result is returned only if every field
\* was set by a record of the input, and an input that leaves a field unset
\* fails with IncompleteClassification.
C8_UnsetFieldIsIncomplete ==
    (pc = "done") =>
        /\ ResultOnlyIfAllSet
        /\ (\E f \in Fields : NeverSet(f)) =>
              /\ ~ret.ok
              /\ "val" \notin DOMAIN ret
              /\ ret.err = "IncompleteClassification"

\* C8 (amended): a result is returned only if every field was set by a record
\* of the input; an input that leaves a field unset fails without a result:
\* with NoPackageObject when it has no package record, else with
\* UnexpectedTypeParameter when a parameterized record has a parameter that is
\* no struct, else with IncompleteClassification.
C8_UnsetFieldFails ==
    (pc = "done") =>
        /\ ResultOnlyIfAllSet
        /\ (\E f \in Fields : NeverSet(f)) =>
              /\ ~ret.ok
              /\ "val" \notin DOMAIN ret
              /\ ret.err = IF PackageRecords = {} THEN "NoPackageObject"
                           ELSE IF RejectedParameter THEN "UnexpectedTypeParameter"
                           ELSE "IncompleteClassification"

\* C8 witness: an input with a package record that lacks only the registry
\* failed with IncompleteClassification.
C8_Witness ==
    /\ pc = "done"
    /\ PackageRecords # {}
    /\ \A f \in Fields : NeverSet(f) <=> f = "lemon_registry"
    /\ ~ret.ok
    /\ ret.err = "IncompleteClassification"

\* C9: an input without a package record fails with NoPackageObject, whatever
\* else it holds, and none of its records was dispatched.
C9_NoPackageFailsFirst ==
    (pc = "done" /\ PackageRecords = {}) =>
        /\ ~ret.ok
        /\ ret.err = "NoPackageObject"
        /\ "val" \notin DOMAIN ret
        /\ classified.handled = <<>>

\* C9 witness: an input without a package record, holding a record a parser
\* would reject and records that would all be dispatched, has failed.
C9_Witness ==
    /\ pc = "done"
    /\ PackageRecords = {}
    /\ RejectedParameter
    /\ Len(objects) >= 5
    /\ ~ret.ok

\* C19 (the claim as stated; the code violates it): an input with a package
\* record and a record of one of the eight recognized types that has a type
\* parameter that is no struct fails with UnexpectedTypeParameter and returns
\* no result.
C19_NonStructParameterRejected ==
    (/\ pc = "done"
     /\ PackageRecords # {}
     /\ \E i \in RestRecords :
           /\ <<objects[i].type.module, objects[i].type.name>> \in RecognizedNames
           /\ \E k \in Indices(objects[i].type.type_params) :
                 objects[i].type.type_params[k].tag # "Struct") =>
        /\ ~ret.ok
        /\ ret.err = "UnexpectedTypeParameter"
        /\ "val" \notin DOMAIN ret

\* A record the classifier is to skip: a struct whose (module, name) is none of
\* the eight recognized pairs, or one of a parameterized recognized type whose
\* type parameters are all structs that its parser does not expect.
Skipped(o) ==
    /\ o.type.tag = "Struct"
    /\ \/ <<o.type.module, o.type.name>> \notin RecognizedNames
       \/ /\ <<o.type.module, o.type.name>> \in ParameterizedNames
          /\ \A k \in Indices(o.type.type_params) :
                /\ o.type.type_params[k].tag = "Struct"
                /\ \A sig \in RecognizedSignatures :
                      <<sig.module, sig.name>> = <<o.type.module, o.type.name>> =>
                          sig.param # <<o.type.type_params[k].module, o.type.type_params[k].name>>
NotSkipped(o) == ~Skipped(o)
SkippedRecords == {i \in Indices(objects) : Skipped(objects[i])}

\* C20: the outcome of process_objects on an input, the result or the error,
\* is its outcome on the input without the records to skip, and no field of a
\* result holds the identity of such a record.
C20_SkippedRecordsChangeNothing ==
    (pc = "done") =>
        /\ ret = process_objects(SelectSeq(objects, NotSkipped))
        /\ ret.ok => \A f \in Fields : \A i \in SkippedRecords : ret.val[f] # objects[i].id

\* C20 witness: an input with a record of an unrecognized type and a
\* TreasuryCap of an unexpected coin, among the records of all ten fields, was
\* classified.
C20_Witness ==
    /\ pc = "done"
    /\ ret.ok
    /\ Cardinality(SkippedRecords) = 2
    /\ \E i \in SkippedRecords : <<objects[i].type.module, objects[i].type.name>> \in ParameterizedNames
    /\ \E i \in SkippedRecords : <<objects[i].type.module, objects[i].type.name>> \notin RecognizedNames

\* The last package record of the input, and the input without the other
\* package records.
LastPackage == CHOOSE i \in PackageRecords : \A j \in PackageRecords : j <= i
WithLastPackageOnly ==
    SelectSeq([i \in Indices(objects) |-> [at |-> i, object |-> objects[i]]],
              LAMBDA r : r.at \notin PackageRecords \ {LastPackage})
WithoutOtherPackages == [i \in Indices(WithLastPackageOnly) |-> WithLastPackageOnly[i].object]

\* C21: on an input with more than one package record process_objects does not
\* fail for want of a package, its outcome is the outcome on the input with
\* only the last package record, and the package field of a result is the
\* identity of the last package record in input order.
C21_LastPackageWins ==
    (pc = "done" /\ Cardinality(PackageRecords) > 1) =>
        /\ ~ret.ok => ret.err # "NoPackageObject"
        /\ ret = process_objects(WithoutOtherPackages)
        /\ ret.ok => ret.val["package"] = objects[LastPackage].id

\* C21 witness: an input with two package records, the one of the larger
\* identity first, was classified and every field is set.
C21_Witness ==
    /\ pc = "done"
    /\ ret.ok
    /\ Cardinality(PackageRecords) = 2
    /\ \E i \in PackageRecords : objects[i].id > objects[LastPackage].id

\* ------------------------------------------------ claims on the consolidator
\* merge_all_gas has ended without a transaction: nothing was built, signed
\* or handed to the network.
MergeBuiltNothing ==
    /\ pc = "done"
    /\ ~ret.ok
    /\ "val" \notin DOMAIN ret
    /\ stages["merge"] = <<>>
    /\ tx_data = None
    /\ signature = None
    /\ tx = None
    /\ net = <<>>

\* C11 (the claim as stated, refuted): whenever merge_all_gas fetched a pool
\* of fewer than 3 coins, it failed with InsufficientInputs and no transaction
\* was built, signed or submitted.
C11_FewerThanThreeIsInsufficientInputs ==
    (call = "merge" /\ pool.ok /\ Len(pool.val) < 3) =>
        /\ MergeBuiltNothing
        /\ ret.err = "InsufficientInputs"

\* C11 (amended): whenever merge_all_gas fetched a pool of fewer than 3 coins,
\* it failed and no transaction was built, signed or submitted: with
\* InsufficientResources when no coin of the pool covers the budget, and with
\* InsufficientInputs otherwise.
C11_FewerThanThreeFails ==
    (call = "merge" /\ pool.ok /\ Len(pool.val) < 3) =>
        /\ MergeBuiltNothing
        /\ ret.err = IF \A i \in Indices(pool.val) : pool.val[i].balance < MERGE_SUI_GAS_BUDGET * 2
                     THEN "InsufficientResources"
                     ELSE "InsufficientInputs"

\* C11 witness: a pool of two coins, one of them covering the budget, left a
\* target and no source, and the merge failed with InsufficientInputs.
C11_Witness ==
    /\ call = "merge"
    /\ pool.ok
    /\ Len(pool.val) = 2
    /\ selected.ok
    /\ Len(selected.val.rest) = 1
    /\ pc = "done"
    /\ ret.err = "InsufficientInputs"

\* C17: whenever the selector returned a coin of a fetched pool, the remainder
\* has one coin fewer than the pool; the chosen coin's identity does not occur
\* in it; every other coin of the pool occurs in it exactly once, with its
\* balance; and every coin of the remainder is a coin of the pool.
C17_RemainderIsPoolMinusChosen ==
    (call \in {"find", "merge"} /\ pool.ok /\ selected.ok) =>
        LET P == pool.val
            chosen == selected.val.target
            R == selected.val.rest
        IN  /\ Len(R) = Len(P) - 1
            /\ \A k \in Indices(R) : R[k].id # chosen.id
            /\ \A i \in Indices(P) :
                  P[i].id # chosen.id =>
                      /\ Cardinality({k \in Indices(R) : R[k].id = P[i].id}) = 1
                      /\ \A k \in Indices(R) : R[k].id = P[i].id => R[k].balance = P[i].balance
            /\ \A k \in Indices(R) : \E i \in Indices(P) : P[i] = R[k]

\* C17 witness: the selector chose among four coins one that the sort had not
\* placed last, so that the last coin took its place in the remainder.
C17_Witness ==
    /\ call = "find"
    /\ pool.ok
    /\ selected.ok
    /\ Len(pool.val) = 4
    /\ \E k \in 1..2 : selected.val.rest[k].balance > selected.val.rest[k + 1].balance
    /\ \E k \in 1..3 : selected.val.rest[k].balance < selected.val.target.balance

\* C18: the transaction merge_all_gas has built holds one pay::join call per
\* source, in the order of the sources, each with the target as its first
\* argument and its own source as the second; the sources are distinct; the
\* fee payer is the one gas payment and is neither the target nor a source;
\* the gas budget is twice the merge fee ceiling; and a merge that returned Ok
\* has handed exactly this one transaction to the network.
C18_MergeIsOneBatch ==
    (call = "merge") =>
        /\ Len(net) <= 1
        /\ (tx_data # None) =>
              LET payer == selected.val.target
                  target == selected.val.rest[1]
                  sources == Tail(selected.val.rest)
                  calls == tx_data.pt
              IN  /\ Len(sources) >= 1
                  /\ Len(calls) = Len(sources)
                  /\ \A k \in Indices(calls) :
                        /\ calls[k].function = "pay::join"
                        /\ calls[k].args = <<target.id, sources[k].id>>
                  /\ \A j, k \in Indices(calls) : j # k => calls[j].args[2] # calls[k].args[2]
                  /\ tx_data.gas_payment = <<payer.id>>
                  /\ payer.id # target.id
                  /\ \A k \in Indices(sources) : sources[k].id \notin {payer.id, target.id}
                  /\ tx_data.gas_budget = 2 * MERGE_SUI_GAS_BUDGET
        /\ (pc = "done" /\ ret.ok) =>
              /\ Len(net) = 1
              /\ net[1].op = "merge"
              /\ net[1].data = tx_data

\* C18 witness: a merge of two sources returned Ok after one transaction of
\* two calls.
C18_Witness ==
    /\ call = "merge"
    /\ pc = "done"
    /\ ret.ok
    /\ Len(net) = 1
    /\ Len(net[1].data.pt) = 2
    /\ net[1].data.pt[1].args[2] # net[1].data.pt[2].args[2]

\* ------------------------------------------------------ claims on the run
\* C12 (the claim as stated; the code violates it): once the fetch of one of
\* the two references of setup_package has failed, the run has ended with
\* ReferenceResolutionFailed and no setup transaction was built, signed or
\* submitted.
C12_FailedReferenceFetchIsResolutionError ==
    (/\ call = "main"
     /\ batch # None
     /\ batch.fn = ReferenceFetch
     /\ \E i \in Indices(tasks) : tasks[i].kind = "error") =>
        /\ pc = "done"
        /\ ~ret.ok
        /\ ret.err = "ReferenceResolutionFailed"
        /\ stages["setup"] = <<>>
        /\ \A i \in Indices(net) : net[i].op # "setup"

\* The identities of the objects the publish transaction created.
Created == {effects.created[i] : i \in Indices(effects.created)}

\* The identities a setup transaction's data refers to: the package of the
\* call and of its type arguments, the admin cap and the mint config.
SetupReferences(data) ==
    {data.pt[1].package, data.pt[1].args[1].ref.id, data.pt[1].args[2].id}
        \cup {data.pt[1].type_args[i] : i \in Indices(data.pt[1].type_args)}

\* C14: in a run of main, classification starts only when the fetches of all
\* created objects were joined; the setup starts only when the publish
\* transaction went through all its stages and classification succeeded; a
\* setup transaction exists or is submitted only after that, as the second
\* transaction after the publish; and every identity it refers to is the
\* identity of an object the publish created.
C14_SetupAfterPublishAndClassification ==
    (call = "main") =>
        /\ (pc \in {"classify", "setup"}) =>
              /\ batch.fn = PublishedFetch
              /\ batch.ids = effects.created
              /\ Len(joined) = Len(batch.ids)
              /\ \A i \in Indices(tasks) : tasks[i].kind \notin {"running", "error"}
        /\ (pc = "setup" \/ stages["setup"] # <<>>) =>
              /\ stages["publish"] = PipelineStages
              /\ effects # None
              /\ effects.status = Success
              /\ classified # None
              /\ classified.result.ok
              /\ \A i \in Indices(objects) : objects[i].id \in Created
        /\ (stages["setup"] # <<>>) => SetupReferences(tx_data) \subseteq Created
        /\ \A i \in Indices(net) :
              net[i].op = "setup" =>
                  /\ i = 2
                  /\ net[1].op = "publish"
                  /\ SetupReferences(net[i].data) \subseteq Created

\* C14 witness: the setup transaction was submitted after a publish that
\* created the ten objects and an upgrade capability, and the run ended Ok.
C14_Witness ==
    /\ call = "main"
    /\ pc = "done"
    /\ ret.ok
    /\ Len(net) = 2
    /\ net[2].op = "setup"
    /\ 12 \in Created
    /\ SetupReferences(net[2].data) = {1, 3, 4}

\* The envelopes of operation o among those handed to the network.
Submitted(o, sent) == {i \in Indices(sent) : sent[i].op = o}

\* C15: every step of a run of main starts from a run that has not returned,
\* leaves at most one publish and at most one setup transaction submitted, and
\* ends the run when it returns; a step that fails submits nothing and
\* returns the error. So a run that has returned, with an error or not, takes
\* no further step and submits nothing more.
C15_NoRetry ==
    [][(call' = "main") =>
          /\ ret = None
          /\ Cardinality(Submitted("publish", net')) <= 1
          /\ Cardinality(Submitted("setup", net')) <= 1
          /\ Len(net') <= 2
          /\ ret' # None => pc' = "done"
          /\ pc' = "done" => ret' # None
          /\ (ret' # None /\ ~ret'.ok) => net' = net]_vars

\* C15 witness: the publish and the setup transaction were each submitted
\* once, the submission of the setup failed, and the run has ended with the
\* error.
C15_Witness ==
    /\ call = "main"
    /\ pc = "done"
    /\ ~ret.ok
    /\ ret.err = "SubmissionError"
    /\ op = "setup"
    /\ Cardinality(Submitted("publish", net)) = 1
    /\ Cardinality(Submitted("setup", net)) = 1

\* ------------------------------------------------------ the fan-out on its own
\* process_published_objects on every list of at most MaxTasks created objects
\* and get_objects_references::<2> on the two references of the setup, followed
\* task by task: the tasks are spawned in order, complete in any order, and
\* are joined in order.
FanOutCalls ==
    UNION {{[fn |-> PublishedFetch, ids |-> Asc(S)], [fn |-> PublishedFetch, ids |-> Desc(S)]} :
             S \in SUBSET (1..MaxTasks)}
        \cup {[fn |-> ReferenceFetch, ids |-> <<3, 4>>], [fn |-> ReferenceFetch, ids |-> <<15, 4>>]}

InitFanOut ==
    /\ call = "fanout"
    /\ pc = "join"
    /\ amount = 0
    /\ pool = None
    /\ selected = None
    /\ op = "none"
    /\ pending = None
    /\ tx_data = None
    /\ signature = None
    /\ tx = None
    /\ response = None
    /\ effects = None
    /\ checked = None
    /\ objects = <<>>
    /\ classified = None
    /\ batch \in FanOutCalls
    /\ tasks = <<>>
    /\ joined = <<>>
    /\ completed = <<>>
    /\ account = None
    /\ callers = <<>>
    /\ net = <<>>
    /\ stages = [o \in Ops |-> <<>>]
    /\ ret = None

\* tasks.push(tokio::spawn(task)) for the next identity (deployer.rs 256-272,
\* 408-419).
SpawnTask ==
    /\ call = "fanout"
    /\ pc = "join"
    /\ Len(tasks) < Len(batch.ids)
    /\ tasks' = Append(tasks, Running)
    /\ UNCHANGED <<race, call, pc, finder, op, pending, envelope, response, effects, checked,
                   classifier, batch, joined, completed, net, stages, ret>>

\* A spawned task's get_object_with_options returns; a task runs on the
\* runtime whether or not the caller still waits for it.
TaskCompletes ==
    /\ call = "fanout"
    /\ \E i \in 1..Len(tasks), outcome \in TaskOutcomes(batch.fn) :
        /\ tasks[i] = Running
        /\ tasks' = [tasks EXCEPT ![i] = outcome]
        /\ completed' = Append(completed, i)
    /\ UNCHANGED <<race, call, pc, finder, op, pending, envelope, response, effects, checked,
                   classifier, batch, joined, net, stages, ret>>

\* Mutant of JoinTask: the tasks are taken from the end of the vector.
JoinTask_from_last ==
    /\ call = "fanout"
    /\ pc = "join"
    /\ Len(tasks) = Len(batch.ids)
    /\ Len(joined) < Len(batch.ids)
    /\ tasks[Len(batch.ids) - Len(joined)] # Running
    /\ LET i == Len(batch.ids) - Len(joined)
           j == join_task(batch.fn, batch.ids[i], tasks[i])
       IN  IF j.ok
           THEN /\ joined' = Append(joined, j.val)
                /\ UNCHANGED <<pc, ret>>
           ELSE /\ ret' = j
                /\ pc' = "done"
                /\ UNCHANGED joined
    /\ UNCHANGED <<race, call, finder, op, pending, envelope, response, effects, checked,
                   classifier, batch, tasks, completed, net, stages>>

\* One round of the join loop: the next task in order is awaited until it has
\* completed (deployer.rs 274-277, 421-424).
JoinTask ==
    /\ call = "fanout"
    /\ pc = "join"
    /\ Len(tasks) = Len(batch.ids)
    /\ Len(joined) < Len(batch.ids)
    /\ tasks[Len(joined) + 1] # Running
    /\ LET i == Len(joined) + 1
           j == join_task(batch.fn, batch.ids[i], tasks[i])
       IN  IF j.ok
           THEN /\ joined' = Append(joined, j.val)
                /\ UNCHANGED <<pc, ret>>
           ELSE /\ ret' = j
                /\ pc' = "done"
                /\ UNCHANGED joined
    /\ UNCHANGED <<race, call, finder, op, pending, envelope, response, effects, checked,
                   classifier, batch, tasks, completed, net, stages>>

\* Ok(ret) after the loop (deployer.rs 279, 426).
ReturnJoined ==
    /\ call = "fanout"
    /\ pc = "join"
    /\ Len(tasks) = Len(batch.ids)
    /\ Len(joined) = Len(batch.ids)
    /\ ret' = Ok(joined)
    /\ pc' = "done"
    /\ UNCHANGED <<race, call, finder, op, pending, envelope, response, effects, checked,
                   classifier, fanout, net, stages>>

\* The result of a publish whose admin cap and mint config are the two
\* identities ids.
PublishResultWith(ids) ==
    [default_builder EXCEPT !["package"] = 1, !["lemon_cap"] = ids[1], !["lemon_mint_config"] = ids[2]]

\* setup_package after its get_objects_references has returned (deployer.rs
\* 298-346): the call arguments are built from the two references.
SetupArguments ==
    /\ call = "fanout"
    /\ pc = "done"
    /\ batch.fn = ReferenceFetch
    /\ ret.ok
    /\ tx_data = None
    /\ \E gas_payer \in {g \in SetupGasPayers : g.ok}, price \in {p \in get_reference_gas_price : p.ok} :
          tx_data' = setup_build(PublishResultWith(batch.ids), gas_payer, ret, price).val
    /\ UNCHANGED <<race, call, pc, finder, op, pending, signature, tx, response, effects, checked,
                   classifier, fanout, net, stages, ret>>

NextFanOut ==
    \/ SpawnTask
    \/ TaskCompletes
    \/ JoinTask
    \/ ReturnJoined
    \/ SetupArguments

SpecFanOut == InitFanOut /\ [][NextFanOut]_vars

\* The value the caller gets for identity id from a task of that outcome.
ValueOf(fn, id, outcome, value) ==
    IF fn = PublishedFetch
    THEN IF outcome.kind = "data"
         THEN value.data # None /\ value.data.some.object_id = id
         ELSE value.data = None
    ELSE /\ outcome.kind = "ref"
         /\ value = [id |-> id, version |-> outcome.version]

\* C13: under every order of task completions, nothing is returned while the
\* join loop runs; results are returned only when every task was spawned and
\* has completed without error, one value per identity in the order of the
\* identities; when a task has failed the call has failed; and a failed call
\* carries no values.
C13_FanOutAllOrNothing ==
    (call = "fanout") =>
        /\ pc # "done" => ret = None
        /\ (pc = "done" /\ ret.ok) =>
              /\ Len(tasks) = Len(batch.ids)
              /\ \A i \in Indices(tasks) : tasks[i].kind \notin {"running", "error"}
              /\ Len(ret.val) = Len(batch.ids)
              /\ \A i \in Indices(tasks) : ValueOf(batch.fn, batch.ids[i], tasks[i], ret.val[i])
        /\ (pc = "done" /\ \E i \in Indices(tasks) : tasks[i].kind = "error") => ~ret.ok
        /\ (pc = "done" /\ ~ret.ok) => "val" \notin DOMAIN ret

\* C13 witness: of three tasks the first was joined, the second failed, and
\* the call has failed while the third was still running.
C13_Witness ==
    /\ call = "fanout"
    /\ pc = "done"
    /\ ~ret.ok
    /\ Len(batch.ids) = 3
    /\ Len(joined) = 1
    /\ tasks[2].kind = "error"
    /\ tasks[3] = Running

\* C23: when get_objects_references has succeeded, whatever order its tasks
\* completed in, the i-th reference returned is the one fetched for the i-th
\* identity asked for; and in the call that setup_package builds from them the
\* owned argument is the reference fetched for the admin cap and the shared
\* argument is the mint config with the version fetched for it.
C23_ReferencesInRequestOrder ==
    (call = "fanout" /\ batch.fn = ReferenceFetch /\ pc = "done" /\ ret.ok) =>
        /\ Len(ret.val) = Len(batch.ids)
        /\ \A i \in Indices(batch.ids) :
              ret.val[i] = [id |-> batch.ids[i], version |-> tasks[i].version]
        /\ tx_data # None =>
              LET args == tx_data.pt[1].args
              IN  /\ args[1] = [kind |-> "ImmOrOwnedObject",
                                ref |-> [id |-> batch.ids[1], version |-> tasks[1].version]]
                  /\ args[2] = [kind |-> "SharedObject", id |-> batch.ids[2],
                                initial_shared_version |-> tasks[2].version, mutable |-> TRUE]

\* C23 witness: the fetch for the mint config completed before the fetch for
\* the admin cap, with a different version, and the call was built.
C23_Witness ==
    /\ call = "fanout"
    /\ batch.fn = ReferenceFetch
    /\ pc = "done"
    /\ ret.ok
    /\ completed = <<2, 1>>
    /\ tasks[1].version # tasks[2].version
    /\ tx_data # None

\* ------------------------------------------------------ the scenario on its own
\* The pool of the end-to-end scenario, A:100, B:5, C:5, as the fetch may
\* return it, with every outcome of the sort.
ScenarioCoins == <<Coin(1, 100), Coin(2, 5), Coin(3, 5)>>
ScenarioPools ==
    {[i \in 1..3 |-> ScenarioCoins[p[i]]] :
        p \in {q \in [1..3 -> 1..3] : \A i, j \in 1..3 : i # j => q[i] # q[j]}}
ScenarioFetches ==
    UNION {{[fetched |-> Ok(p), sorted |-> s] : s \in sort_unstable_by_key(p)} : p \in ScenarioPools}

\* find_gas_coin_to_pay_gas_budget(50) on the scenario's pool.
ScenarioFind == FindGasCoinOn({50}, ScenarioFetches)

\* merge_all_gas on the scenario's pool with a merge fee ceiling of 10.
ScenarioMerge == MergeBuildOn(10 * 2, ScenarioFetches)

NextScenario ==
    \/ ScenarioFind
    \/ ScenarioMerge
    \/ Sign
    \/ Verify
    \/ Submit
    \/ Finalize
    \/ MergeFinish

SpecScenario == Init /\ [][NextScenario]_vars

\* What the scenario states for a remainder left: the selector chose A and
\* left that remainder; the merge paid with A, took the first coin left as
\* the target and the other as the only source of exactly one join call, and
\* returned the balance 10 with the target's identity.
ScenarioOutcome(left) ==
    /\ selected.ok
    /\ selected.val.target = ScenarioCoins[1]
    /\ selected.val.rest = left
    /\ (call = "merge" /\ tx_data # None) =>
          /\ tx_data.gas_payment = <<ScenarioCoins[1].id>>
          /\ tx_data.gas_budget = 20
          /\ tx_data.pt = <<[function |-> "pay::join", args |-> <<left[1].id, left[2].id>>]>>
    /\ (call = "merge" /\ pc = "done" /\ ret.ok) =>
          ret.val = [balance |-> 10, id |-> left[1].id]

\* C16 (the claim as stated, refuted): in the scenario the remainder is
\* [B, C], so the target is B and the source is C.
C16_ScenarioLeavesBThenC ==
    (call \in {"find", "merge"}) =>
        ScenarioOutcome(<<ScenarioCoins[2], ScenarioCoins[3]>>)

\* C16 (amended): in the scenario the remainder is B and C in the order the
\* sort left these two coins of equal balance, [B, C] or [C, B]; the target
\* is the first of them and the source the other.
C16_ScenarioLeavesBAndC ==
    (call \in {"find", "merge"}) =>
        \/ ScenarioOutcome(<<ScenarioCoins[2], ScenarioCoins[3]>>)
        \/ ScenarioOutcome(<<ScenarioCoins[3], ScenarioCoins[2]>>)

\* C16 witness: on the pool fetched as [A, B, C] the merge returned the
\* balance 10 with the identity of B.
C16_Witness ==
    /\ call = "merge"
    /\ pool = Ok(ScenarioCoins)
    /\ pc = "done"
    /\ ret.ok
    /\ ret.val = [balance |-> 10, id |-> ScenarioCoins[2].id]
    /\ Len(net) = 1

\* ------------------------------------------- two selections at the same time
\* Two calls of find_gas_coin_to_pay_gas_budget on one account run
\* concurrently: each fetches the coins, sorts its own copy and selects; the
\* steps of the two interleave in any order. Nothing in the call writes to the
\* network.
Callers == {1, 2}

\* The coins of the account when the calls start.
RacePools ==
    UNION {{[i \in 1..n |-> Coin(i, bs[i])] : bs \in [1..n -> 0..MaxBalance]} : n \in 0..MaxRaceCoins}

\* The locals of a call that has not started.
\* met records where the other calls stood when this one fetched.
NewCaller(amt) ==
    [pc |-> "fetch", amount |-> amt, met |-> <<>>, fetched |-> None, sorted |-> <<>>, ret |-> None]

InitRace ==
    /\ call = "race"
    /\ pc = "race"
    /\ amount = 0
    /\ pool = None
    /\ selected = None
    /\ op = "none"
    /\ pending = None
    /\ tx_data = None
    /\ signature = None
    /\ tx = None
    /\ response = None
    /\ effects = None
    /\ checked = None
    /\ objects = <<>>
    /\ classified = None
    /\ batch = None
    /\ tasks = <<>>
    /\ joined = <<>>
    /\ completed = <<>>
    /\ account \in RacePools
    /\ \E amounts \in [Callers -> 0..MaxAmount] :
          callers = [c \in Callers |-> NewCaller(amounts[c])]
    /\ net = <<>>
    /\ stages = [o \in Ops |-> <<>>]
    /\ ret = None

\* Where the calls other than c stand.
Others(c) == [d \in Callers \ {c} |-> callers[d].pc]

\* The coins another call has returned as its fee payer.
TakenByOthers(c) ==
    {callers[d].ret.val.target : d \in {e \in Callers \ {c} : callers[e].ret # None /\ callers[e].ret.ok}}

\* Mutant of RaceFetch: the fetch leaves out the coins that another call has
\* already returned as its fee payer.
RaceFetch_reserving(c) ==
    /\ call = "race"
    /\ callers[c].pc = "fetch"
    /\ \E answer \in {Ok(SelectSeq(account, LAMBDA coin : coin \notin TakenByOthers(c))),
                      Err("ConnectionError", <<"Failed to fetch SUI objects">>)} :
          callers' = [callers EXCEPT ![c] =
                        IF answer.ok
                        THEN [@ EXCEPT !.pc = "sort", !.fetched = answer, !.met = Others(c)]
                        ELSE [@ EXCEPT !.pc = "done", !.fetched = answer, !.met = Others(c),
                                       !.ret = answer]]
    /\ UNCHANGED <<call, pc, finder, op, pending, envelope, response, effects, checked,
                   classifier, fanout, account, net, stages, ret>>

\* self.get_sui_coins().await? in call c (deployer.rs 67-70): the coins the
\* account holds now, or a transport error that ends the call.
RaceFetch(c) ==
    /\ call = "race"
    /\ callers[c].pc = "fetch"
    /\ \E answer \in {Ok(account), Err("ConnectionError", <<"Failed to fetch SUI objects">>)} :
          callers' = [callers EXCEPT ![c] =
                        IF answer.ok
                        THEN [@ EXCEPT !.pc = "sort", !.fetched = answer, !.met = Others(c)]
                        ELSE [@ EXCEPT !.pc = "done", !.fetched = answer, !.met = Others(c),
                                       !.ret = answer]]
    /\ UNCHANGED <<call, pc, finder, op, pending, envelope, response, effects, checked,
                   classifier, fanout, account, net, stages, ret>>

\* gas_coins.sort_unstable_by_key(..) in call c (deployer.rs 72), on its own
\* copy of the coins.
RaceSort(c) ==
    /\ call = "race"
    /\ callers[c].pc = "sort"
    /\ \E sorted \in sort_unstable_by_key(callers[c].fetched.val) :
          callers' = [callers EXCEPT ![c] = [@ EXCEPT !.pc = "select", !.sorted = sorted]]
    /\ UNCHANGED <<call, pc, finder, op, pending, envelope, response, effects, checked,
                   classifier, fanout, account, net, stages, ret>>

\* The selection and the return of call c (deployer.rs 73-79).
RaceSelect(c) ==
    /\ call = "race"
    /\ callers[c].pc = "select"
    /\ callers' = [callers EXCEPT ![c] =
                     [@ EXCEPT !.pc = "done",
                               !.ret = find_gas_coin_to_pay_gas_budget(
                                           [fetched |-> callers[c].fetched, sorted |-> callers[c].sorted],
                                           callers[c].amount)]]
    /\ UNCHANGED <<call, pc, finder, op, pending, envelope, response, effects, checked,
                   classifier, fanout, account, net, stages, ret>>

NextRace == \E c \in Callers : RaceFetch(c) \/ RaceSort(c) \/ RaceSelect(c)

SpecRace == InitRace /\ [][NextRace]_vars

\* The coins of the account that cover amt with the least balance.
SmallestSufficient(amt) ==
    {account[i] : i \in {j \in Indices(account) :
                            /\ account[j].balance >= amt
                            /\ \A k \in Indices(account) :
                                  account[k].balance >= amt => account[j].balance <= account[k].balance}}

Picked(c) == callers[c].pc = "done" /\ callers[c].ret.ok

\* C22: nothing reserves a coin. Whatever the other call has done, a call
\* fetches every coin of the account and returns one of the coins of the least
\* sufficient balance; so when two concurrent calls have the same single such
\* coin, both return that coin as their fee payer.
C22_BothSelectTheSameCoin ==
    /\ \A c \in Callers :
          (callers[c].fetched # None /\ callers[c].fetched.ok) => callers[c].fetched.val = account
    /\ \A c \in Callers :
          Picked(c) => callers[c].ret.val.target \in SmallestSufficient(callers[c].amount)
    /\ \A c \in Callers :
          (callers[c].pc = "done" /\ ~callers[c].ret.ok /\ callers[c].ret.err # "ConnectionError") =>
              SmallestSufficient(callers[c].amount) = {}
    /\ \A c, d \in Callers :
          (/\ Picked(c)
           /\ Picked(d)
           /\ SmallestSufficient(callers[c].amount) = SmallestSufficient(callers[d].amount)
           /\ Cardinality(SmallestSufficient(callers[c].amount)) = 1) =>
              callers[c].ret.val.target = callers[d].ret.val.target

\* C22 witness: the second call fetched after the first had fetched and sorted
\* and before it selected, both calls have returned, with the same coin as fee
\* payer, although the account holds another coin that covers the amount of
\* the second call.
C22_Witness ==
    /\ Picked(1)
    /\ Picked(2)
    /\ callers[2].met[1] = "select"
    /\ callers[1].ret.val.target = callers[2].ret.val.target
    /\ \E i \in Indices(account) :
          /\ account[i] # callers[1].ret.val.target
          /\ account[i].balance >= callers[2].amount
          /\ callers[2].amount > 0

====
